---- MODULE Spec2Model ----
(***************************************************************************)
(* Model of causica's noise-accessible Bernoulli distribution              *)
(* (distributions/noise_accessible/bernoulli.py) and of its graph          *)
(* evaluation metrics (graph/evaluation_metrics.py).                       *)
(*                                                                         *)
(* Tensor elements of the Bernoulli model are float32 values, written      *)
(* <<m, e>> for m * 2^e with 2^23 <= |m| < 2^24 (and <<0, 0>> for 0.0);    *)
(* additions round to nearest, ties to even, as torch's float32 kernels    *)
(* do.  Precision, recall and F1 are exact fractions <<num, den>> in       *)
(* lowest terms.                                                           *)
(***************************************************************************)
EXTENDS Integers, Sequences, FiniteSets, TLC

VARIABLES pc,            \* which call the state is in / has returned from
          delta_logits,  \* NoiseAccessibleBernoulli.delta_logits (tensor)
          base_logits,   \* base_logits (a 0-dim tensor, broadcast)
          samples,       \* argument of sample_to_noise
          noise,         \* argument of noise_to_sample / result of sample_to_noise
          out,           \* result of noise_to_sample
          graph1,        \* first adjacency matrix
          graph2,        \* second adjacency matrix
          precision,     \* returned precision (or f1_score's argument)
          recall,        \* returned recall (or f1_score's argument)
          f1,            \* returned F1 score
          vec            \* returned edge-encoding vector

vars == <<pc, delta_logits, base_logits, samples, noise, out,
          graph1, graph2, precision, recall, f1, vec>>

\* an unset variable that holds a number, a vector or a matrix when set
None == <<>>
\* an unset variable that holds a tensor when set
NoTensor == [shape |-> <<>>, data |-> <<>>]

------------------------------------------------------------------------------
(* Bounds of the model *)

\* largest number of elements of a tensor
MaxNumel == 2
\* number of nodes of the graphs
NumNodes == 3
\* largest number of nonzero entries of graph1 and graph2 together (0/1 graphs)
MaxEdges == 3
\* largest entry of a weighted adjacency matrix
MaxWeight == 2
\* largest number of nonzero entries of graph1 and graph2 together (weighted)
MaxWeightedEdges == 2

------------------------------------------------------------------------------
(* float32 arithmetic *)

\* significand width of torch's default dtype, float32
MantBits == 24

Abs(x) == IF x < 0 THEN -x ELSE x

Sgn(x) == IF x < 0 THEN -1 ELSE IF x > 0 THEN 1 ELSE 0

BitLen(n) == IF n = 0 THEN 0 ELSE CHOOSE k \in 1..30 : 2^(k-1) <= n /\ n < 2^k

Zero == <<0, 0>>
One == <<2^(MantBits-1), -(MantBits-1)>>

\* the magnitude n * 2^e (n >= 0) rounded to MantBits bits, ties to even
RoundNearestEven(n, e) ==
    IF n = 0 THEN Zero
    ELSE LET L == BitLen(n) IN
         IF L <= MantBits
         THEN <<n * 2^(MantBits - L), e - (MantBits - L)>>
         ELSE LET k == L - MantBits
                  q == n \div 2^k
                  r == n % 2^k
                  half == 2^(k-1)
                  q2 == IF r > half \/ (r = half /\ q % 2 = 1) THEN q + 1 ELSE q
              IN  IF q2 = 2^MantBits THEN <<2^(MantBits-1), e + k + 1>>
                                     ELSE <<q2, e + k>>

FNeg(a) == <<-a[1], a[2]>>

\* float32 a + b: the operands aligned on three extra bits (guard, round and
\* sticky), added exactly and rounded
FAdd(a, b) ==
    IF a[1] = 0 THEN b
    ELSE IF b[1] = 0 THEN a
    ELSE LET hi == IF a[2] >= b[2] THEN a ELSE b
             lo == IF a[2] >= b[2] THEN b ELSE a
             d  == hi[2] - lo[2]
         IN  IF d > MantBits + 3 THEN hi
             ELSE LET big == Abs(hi[1]) * 2^3
                      sh  == d - 3
                      q   == IF sh <= 0 THEN Abs(lo[1]) * 2^(-sh)
                                        ELSE Abs(lo[1]) \div 2^sh
                      sticky == sh > 0 /\ Abs(lo[1]) % 2^sh # 0
                      small == IF sticky /\ q % 2 = 0 THEN q + 1 ELSE q
                      s   == Sgn(hi[1]) * big + Sgn(lo[1]) * small
                      mag == RoundNearestEven(Abs(s), hi[2] - 3)
                  IN  <<Sgn(s) * mag[1], mag[2]>>

FSub(a, b) == FAdd(a, FNeg(b))

\* float32 a * s for s exactly 0.0 or 1.0 (the products of the code are all
\* of this kind: samples and 1 - samples have entries in {0, 1})
FMulBinary(a, s) == IF s = One THEN a ELSE Zero

\* a > 0
FPositive(a) == a[1] > 0

\* a > b for a float32 a and an integer b with 1 <= b < 2^(MantBits-1)
FGreaterInt(a, b) ==
    IF a[1] <= 0 THEN FALSE
    ELSE IF a[2] >= 0 THEN TRUE
    ELSE IF -a[2] >= MantBits THEN FALSE
    ELSE LET whole == a[1] \div 2^(-a[2])
             frac  == a[1] % 2^(-a[2])
         IN  whole > b \/ (whole = b /\ frac # 0)

------------------------------------------------------------------------------
(* torch.nn.functional.softplus and the Gumbel sampler *)

\* F.softplus's default threshold: above it the input is returned unchanged
SoftplusThreshold == 20

\* float32 log1p(exp(x)) at the arguments the inputs below produce
\* (exp underflows to 0.0 at -2^30, so log1p gives exactly 0.0 there)
Log1pExpTable == {
    <<<<-8388608, 7>>, <<0, 0>>>>,  \* softplus(-1073741824.0) = 0.0
    <<<<-10485760, -21>>, <<14421101, -31>>>>,  \* softplus(-5.0) = 0.006715348456054926
    <<<<-12582912, -22>>, <<13042567, -28>>>>,  \* softplus(-3.0) = 0.04858734831213951
    <<<<-12554746, -22>>, <<13128333, -28>>>>,  \* softplus(-2.9932847023010254) = 0.048906851559877396
    <<<<-12379122, -22>>, <<13675649, -28>>>>,  \* softplus(-2.9514126777648926) = 0.05094576254487038
    <<<<-12050537, -22>>, <<14759987, -28>>>>,  \* softplus(-2.8730719089508057) = 0.05498523637652397
    <<<<-11268997, -22>>, <<8842788, -27>>>>,  \* softplus(-2.6867382526397705) = 0.06588390469551086
    <<<<-9675642, -22>>, <<12740343, -27>>>>,  \* softplus(-2.3068528175354004) = 0.09492295235395432
    <<<<-8388608, -22>>, <<8517995, -26>>>>,  \* softplus(-2.0) = 0.12692801654338837
    <<<<-14149387, -23>>, <<11398173, -26>>>>,  \* softplus(-1.68673837184906) = 0.16984601318836212
    <<<<-8388608, -23>>, <<10511318, -25>>>>,  \* softplus(-1.0) = 0.3132616877555847
    <<<<-14647716, -24>>, <<11710908, -25>>>>,  \* softplus(-0.8730719089508057) = 0.34901225566864014
    <<<<0, 0>>, <<11629080, -24>>>>,  \* softplus(0.0) = 0.6931471824645996
    <<<<14421101, -31>>, <<11685507, -24>>>>,  \* softplus(0.006715348456054926) = 0.6965104937553406
    <<<<13042560, -28>>, <<12041610, -24>>>>,  \* softplus(0.04858732223510742) = 0.7177358865737915
    <<<<13042567, -28>>, <<12041610, -24>>>>,  \* softplus(0.04858734831213951) = 0.7177358865737915
    <<<<8517995, -26>>, <<12727594, -24>>>>,  \* softplus(0.12692801654338837) = 0.7586237192153931
    <<<<10511318, -25>>, <<14461873, -24>>>>,  \* softplus(0.3132616877555847) = 0.8619948029518127
    <<<<11629080, -24>>, <<9215828, -23>>>>,  \* softplus(0.6931471824645996) = 1.0986123085021973
    <<<<8388608, -23>>, <<11016437, -23>>>>,  \* softplus(1.0) = 1.31326162815094
    <<<<11016437, -23>>, <<13014461, -23>>>>,  \* softplus(1.31326162815094) = 1.55144464969635
    <<<<8388608, -22>>, <<8920983, -22>>>>,  \* softplus(2.0) = 2.1269280910491943
    <<<<8416774, -22>>, <<8945801, -22>>>>,  \* softplus(2.0067152976989746) = 2.132845163345337
    <<<<8920983, -22>>, <<9393332, -22>>>>,  \* softplus(2.1269280910491943) = 2.2395448684692383
    <<<<12582912, -22>>, <<12786702, -22>>>>,  \* softplus(3.0) = 3.0485873222351074
    <<<<12611078, -22>>, <<12813537, -22>>>>,  \* softplus(3.0067152976989746) = 3.054985284805298
    <<<<12786702, -22>>, <<12981048, -22>>>>,  \* softplus(3.0485873222351074) = 3.0949230194091797
    <<<<13115287, -22>>, <<13295298, -22>>>>,  \* softplus(3.1269280910491943) = 3.1698460578918457
    <<<<13896827, -22>>, <<14046775, -22>>>>,  \* softplus(3.3132617473602295) = 3.3490121364593506
    <<<<15490182, -22>>, <<15593315, -22>>>>,  \* softplus(3.6931471824645996) = 3.717736005783081
    <<<<9045565, -21>>, <<9073459, -21>>>>,  \* softplus(4.31326150894165) = 4.326562404632568
    <<<<10485760, -21>>, <<10499843, -21>>>>,  \* softplus(5.0) = 5.006715297698975
    <<<<10499843, -21>>, <<10513832, -21>>>>,  \* softplus(5.006715297698975) = 5.013385772705078
    <<<<10751948, -21>>, <<10764357, -21>>>>,  \* softplus(5.126928329467773) = 5.132845401763916
    <<<<12684807, -21>>, <<12689753, -21>>>>,  \* softplus(6.048587322235107) = 6.05094575881958
    <<<<8395650, -20>>, <<8395999, -20>>>>   \* softplus(8.006715774536133) = 8.007048606872559
    }

Log1pExp(x) == (CHOOSE p \in Log1pExpTable : p[1] = x)[2]

Softplus(x) == IF FGreaterInt(x, SoftplusThreshold) THEN x ELSE Log1pExp(x)

\* outcomes of one standard Gumbel draw: -1.0 and 2.0
GumbelDraws == {<<-(2^23), -23>>, <<2^23, -22>>}

------------------------------------------------------------------------------
(* Tensors: a shape and the elements in row-major order *)

RECURSIVE Prod(_)
Prod(shape) == IF shape = <<>> THEN 1 ELSE Head(shape) * Prod(Tail(shape))

Shapes == {<<n>> : n \in 1..MaxNumel} \cup
          {sh \in (1..MaxNumel) \X (1..MaxNumel) : Prod(sh) <= MaxNumel}

Tensors(shape, Values) ==
    {[shape |-> shape, data |-> d] : d \in [1..Prod(shape) -> Values]}

AllTensors(Values) == UNION {Tensors(sh, Values) : sh \in Shapes}

\* elements of delta_logits: -2^30, -1.0, 0.0, 3.0
DeltaValues == {<<-(2^23), 7>>, <<-(2^23), -23>>, Zero, <<12582912, -22>>}
\* base_logits: 0.0, 2.0
BaseValues == {Zero, <<2^23, -22>>}
\* elements of samples
SampleValues == {Zero, One}
\* elements of a noise tensor handed to noise_to_sample by a caller:
\* -3.0, 0.0, 1.0, 1.0 + 2^-23, 2^30
NoiseValues == {<<-12582912, -22>>, Zero, One, <<2^23 + 1, -23>>, <<2^23, 7>>}

------------------------------------------------------------------------------
(* NoiseAccessibleBernoulli *)

\* self.logits, set by __init__: base_logits + delta_logits
Logits(delta, base) ==
    [shape |-> delta.shape,
     data  |-> [k \in 1..Prod(delta.shape) |-> FAdd(base, delta.data[k])]]

\* (variant that compares the number of elements only)
ShapeNumelMatches(smp, delta) == Prod(smp.shape) = Prod(delta.shape)

\* the precondition asserted by sample_to_noise
ShapeMatches(smp, delta) == smp.shape = delta.shape

\* one element of sample_to_noise: logit = self.logits, s = samples,
\* d = delta_logits, g1 and g2 the two Gumbel draws
NoiseElement(logit, s, d, g1, g2) ==
    LET diff_sample == FSub(g1, g2)
        not_s == FSub(One, s)
        neg_log_prob_non_sampled ==
            Softplus(FSub(FMulBinary(logit, s), FMulBinary(logit, not_s)))
        positive_sample == Softplus(FAdd(diff_sample, neg_log_prob_non_sampled))
    IN  FSub(FSub(FMulBinary(positive_sample, s), FMulBinary(positive_sample, not_s)), d)

\* sample_to_noise past its assertion; g1, g2 are the two dist.sample tensors
sample_to_noise(delta, base, smp, g1, g2) ==
    [shape |-> smp.shape,
     data  |-> [k \in 1..Prod(smp.shape) |->
                  NoiseElement(Logits(delta, base).data[k], smp.data[k],
                               delta.data[k], g1[k], g2[k])]]

\* (variant that compares with >= 0)
ThresholdInclusive(d, z) == IF FAdd(d, z)[1] >= 0 THEN One ELSE Zero

\* one element of noise_to_sample: ((delta_logits + noise) > 0).float()
Threshold(d, z) == IF FPositive(FAdd(d, z)) THEN One ELSE Zero

noise_to_sample(delta, z) ==
    [shape |-> z.shape,
     data  |-> [k \in 1..Prod(z.shape) |-> Threshold(delta.data[k], z.data[k])]]

GraphIdle ==
    /\ graph1 = None /\ graph2 = None /\ precision = None
    /\ recall = None /\ f1 = None /\ vec = None

InitBernoulli ==
    /\ delta_logits \in AllTensors(DeltaValues)
    /\ base_logits \in BaseValues
    /\ \/ /\ pc = "sample_to_noise"
          /\ samples \in AllTensors(SampleValues)
          /\ noise = NoTensor
       \/ /\ pc = "noise_to_sample"
          /\ samples = NoTensor
          /\ noise \in Tensors(delta_logits.shape, NoiseValues)
    /\ out = NoTensor
    /\ GraphIdle

SampleToNoise ==
    /\ pc = "sample_to_noise"
    /\ IF ~ShapeMatches(samples, delta_logits)
       THEN /\ pc' = "AssertionError"
            /\ noise' = noise
       ELSE /\ \E g1, g2 \in [1..Prod(samples.shape) -> GumbelDraws] :
                 noise' = sample_to_noise(delta_logits, base_logits, samples, g1, g2)
            /\ pc' = "noise_to_sample"
    /\ UNCHANGED <<delta_logits, base_logits, samples, out,
                   graph1, graph2, precision, recall, f1, vec>>

NoiseToSample ==
    /\ pc = "noise_to_sample"
    /\ out' = noise_to_sample(delta_logits, noise)
    /\ pc' = "done"
    /\ UNCHANGED <<delta_logits, base_logits, samples, noise,
                   graph1, graph2, precision, recall, f1, vec>>

NextBernoulli == SampleToNoise \/ NoiseToSample

SpecBernoulli == InitBernoulli /\ [][NextBernoulli]_vars

------------------------------------------------------------------------------
(* Fractions: the values of precision, recall and F1 *)

RECURSIVE GCD(_, _)
GCD(a, b) == IF b = 0 THEN a ELSE GCD(b, a % b)

\* what a division by zero leaves in a tensor
NaN == <<0, 0>>

\* n / d in lowest terms with a positive denominator
Frac(n, d) ==
    LET g == GCD(Abs(n), Abs(d))
    IN  IF d > 0 THEN <<n \div g, d \div g>> ELSE <<(-n) \div g, (-d) \div g>>

\* torch.tensor(0.0)
FracZero == <<0, 1>>

\* a / b of two tensors holding the integers a and b
TrueDivide(a, b) == IF b = 0 THEN NaN ELSE Frac(a, b)

\* a + b; nan when an operand is nan
FracAdd(a, b) ==
    IF a = NaN \/ b = NaN THEN NaN
    ELSE LET g == GCD(a[2], b[2])
         IN  Frac(a[1] * (b[2] \div g) + b[1] * (a[2] \div g), (a[2] \div g) * b[2])

\* a * b; nan when an operand is nan
FracMul(a, b) ==
    IF a = NaN \/ b = NaN THEN NaN
    ELSE IF a[1] = 0 \/ b[1] = 0 THEN FracZero
    ELSE LET g1 == GCD(Abs(a[1]), b[2])
             g2 == GCD(Abs(b[1]), a[2])
         IN  <<(a[1] \div g1) * (b[1] \div g2), (a[2] \div g2) * (b[2] \div g1)>>

\* a / b; nan when an operand is nan or b is 0
FracDiv(a, b) ==
    IF a = NaN \/ b = NaN \/ b[1] = 0 THEN NaN
    ELSE FracMul(a, IF b[1] > 0 THEN <<b[2], b[1]>> ELSE <<-b[2], -b[1]>>)

\* 1 / 1e-8, the reciprocal of f1_score's threshold
EpsReciprocal == 100000000

\* |a| < 1e-8 (False for nan)
AbsBelowEps(a) == a # NaN /\ Abs(a[1]) <= (a[2] - 1) \div EpsReciprocal

------------------------------------------------------------------------------
(* Graph evaluation metrics *)

Nodes == 0..(NumNodes - 1)

RECURSIVE PairsFrom(_, _)
PairsFrom(i, j) ==
    IF i >= NumNodes - 1 THEN <<>>
    ELSE IF j >= NumNodes THEN PairsFrom(i + 1, i + 2)
    ELSE <<<<i, j>>>> \o PairsFrom(i, j + 1)

\* the unordered node pairs {i, j}, i < j, in the order of the flat vectors
NodePairs == PairsFrom(0, 1)

\* causica.triangular_transformations.unfill_triangular: the strictly upper
\* (lower) triangle as a vector; position k of both is the same node pair
unfill_triangular(graph, upper) ==
    [k \in 1..Len(NodePairs) |->
        IF upper THEN graph[NodePairs[k][1]][NodePairs[k][2]]
                 ELSE graph[NodePairs[k][2]][NodePairs[k][1]]]

\* (variant without the correction term for bidirectional pairs)
to_vector_diff_only(graph) ==
    LET lower_tri == unfill_triangular(graph, FALSE)
        upper_tri == unfill_triangular(graph, TRUE)
    IN  [k \in DOMAIN upper_tri |-> upper_tri[k] - lower_tri[k]]

\* (variant with diff = lower_tri - upper_tri)
to_vector_flipped(graph) ==
    LET lower_tri == unfill_triangular(graph, FALSE)
        upper_tri == unfill_triangular(graph, TRUE)
        diff == [k \in DOMAIN upper_tri |-> lower_tri[k] - upper_tri[k]]
    IN  [k \in DOMAIN diff |->
            diff[k] + (1 - Abs(diff[k])) * (upper_tri[k] + lower_tri[k])]

\* (variant that drops the sign of the encoding)
to_vector_unsigned(graph) ==
    LET lower_tri == unfill_triangular(graph, FALSE)
        upper_tri == unfill_triangular(graph, TRUE)
        diff == [k \in DOMAIN upper_tri |-> upper_tri[k] - lower_tri[k]]
    IN  [k \in DOMAIN diff |->
            Abs(diff[k] + (1 - Abs(diff[k])) * (upper_tri[k] + lower_tri[k]))]

to_vector(graph) ==
    LET lower_tri == unfill_triangular(graph, FALSE)
        upper_tri == unfill_triangular(graph, TRUE)
        diff == [k \in DOMAIN upper_tri |-> upper_tri[k] - lower_tri[k]]
    IN  [k \in DOMAIN diff |->
            diff[k] + (1 - Abs(diff[k])) * (upper_tri[k] + lower_tri[k])]

\* .sum() of a boolean vector
CountTrue(v) == Cardinality({k \in DOMAIN v : v[k]})

\* (variant without the zero-denominator guards)
adjacency_precision_recall_unguarded(g1, g2) ==
    LET tv1 == to_vector(g1)
        tv2 == to_vector(g2)
        vec1 == [k \in DOMAIN tv1 |-> Abs(tv1[k]) > 0]
        vec2 == [k \in DOMAIN tv2 |-> Abs(tv2[k]) > 0]
        correspondence == CountTrue([k \in DOMAIN vec1 |-> vec1[k] /\ vec2[k]])
    IN  <<TrueDivide(correspondence, CountTrue(vec2)),
          TrueDivide(correspondence, CountTrue(vec1))>>

\* (variant with the two denominators exchanged)
adjacency_precision_recall_swapped(g1, g2) ==
    LET tv1 == to_vector(g1)
        tv2 == to_vector(g2)
        vec1 == [k \in DOMAIN tv1 |-> Abs(tv1[k]) > 0]
        vec2 == [k \in DOMAIN tv2 |-> Abs(tv2[k]) > 0]
        correspondence == CountTrue([k \in DOMAIN vec1 |-> vec1[k] /\ vec2[k]])
        rec == IF CountTrue(vec2) # 0 THEN TrueDivide(correspondence, CountTrue(vec2))
                                      ELSE FracZero
        prec == IF CountTrue(vec1) # 0 THEN TrueDivide(correspondence, CountTrue(vec1))
                                       ELSE FracZero
    IN  <<prec, rec>>

\* returns <<precision, recall>>
adjacency_precision_recall(g1, g2) ==
    LET tv1 == to_vector(g1)
        tv2 == to_vector(g2)
        vec1 == [k \in DOMAIN tv1 |-> Abs(tv1[k]) > 0]
        vec2 == [k \in DOMAIN tv2 |-> Abs(tv2[k]) > 0]
        correspondence == CountTrue([k \in DOMAIN vec1 |-> vec1[k] /\ vec2[k]])
        rec == IF CountTrue(vec1) # 0 THEN TrueDivide(correspondence, CountTrue(vec1))
                                      ELSE FracZero
        prec == IF CountTrue(vec2) # 0 THEN TrueDivide(correspondence, CountTrue(vec2))
                                       ELSE FracZero
    IN  <<prec, rec>>

\* (variant that compares the encodings without their sign)
orientation_precision_recall_unsigned(g1, g2) ==
    LET vec1 == to_vector(g1)
        vec2 == to_vector(g2)
        non_zero_vec1 == [k \in DOMAIN vec1 |-> vec1[k] # 0]
        non_zero_vec2 == [k \in DOMAIN vec2 |-> vec2[k] # 0]
        rec == IF CountTrue(non_zero_vec1) # 0
               THEN TrueDivide(CountTrue([k \in DOMAIN vec1 |->
                                    Abs(vec1[k]) = Abs(vec2[k]) /\ non_zero_vec1[k]]),
                               CountTrue(non_zero_vec1))
               ELSE FracZero
        prec == IF CountTrue(non_zero_vec2) # 0
                THEN TrueDivide(CountTrue([k \in DOMAIN vec1 |->
                                     Abs(vec1[k]) = Abs(vec2[k]) /\ non_zero_vec2[k]]),
                                CountTrue(non_zero_vec2))
                ELSE FracZero
    IN  <<prec, rec>>

\* returns <<precision, recall>>
orientation_precision_recall(g1, g2) ==
    LET vec1 == to_vector(g1)
        vec2 == to_vector(g2)
        non_zero_vec1 == [k \in DOMAIN vec1 |-> vec1[k] # 0]
        non_zero_vec2 == [k \in DOMAIN vec2 |-> vec2[k] # 0]
        rec == IF CountTrue(non_zero_vec1) # 0
               THEN TrueDivide(CountTrue([k \in DOMAIN vec1 |->
                                    vec1[k] = vec2[k] /\ non_zero_vec1[k]]),
                               CountTrue(non_zero_vec1))
               ELSE FracZero
        prec == IF CountTrue(non_zero_vec2) # 0
                THEN TrueDivide(CountTrue([k \in DOMAIN vec1 |->
                                     vec1[k] = vec2[k] /\ non_zero_vec2[k]]),
                                CountTrue(non_zero_vec2))
                ELSE FracZero
    IN  <<prec, rec>>

\* (variant without the near-zero guard)
f1_score_unguarded(p, r) ==
    LET denominator == FracAdd(p, r)
    IN  IF denominator[1] = 0 THEN NaN
        ELSE FracMul(FracDiv(FracMul(<<2, 1>>, p), denominator), r)

f1_score(p, r) ==
    LET denominator == FracAdd(p, r)
    IN  IF AbsBelowEps(denominator) THEN FracZero
        ELSE FracDiv(FracMul(FracMul(<<2, 1>>, p), r), denominator)

adjacency_f1(g1, g2) ==
    LET pr == adjacency_precision_recall(g1, g2) IN f1_score(pr[1], pr[2])

orientation_f1(g1, g2) ==
    LET pr == orientation_precision_recall(g1, g2) IN f1_score(pr[1], pr[2])

------------------------------------------------------------------------------
(* Inputs of the metrics *)

\* the entries of graph1 (tag 1) and graph2 (tag 2)
Entries == {1, 2} \X Nodes \X Nodes

RECURSIVE SubsetsUpTo(_, _)
SubsetsUpTo(S, k) ==
    IF k = 0 THEN {{}}
    ELSE LET P == SubsetsUpTo(S, k - 1) IN P \cup {T \cup {x} : T \in P, x \in S}

Matrix(tag, E, w) ==
    [i \in Nodes |-> [j \in Nodes |-> IF <<tag, i, j>> \in E THEN w[<<tag, i, j>>] ELSE 0]]

\* values handed to f1_score directly
Scores == {<<-1, 1>>, <<-1, 2>>, <<-1, 2^28>>, <<0, 1>>, <<1, 2^28>>,
           <<1, 3>>, <<1, 2>>, <<2, 3>>, <<1, 1>>, <<2, 1>>}

BernoulliIdle ==
    /\ delta_logits = NoTensor /\ base_logits = None /\ samples = NoTensor
    /\ noise = NoTensor /\ out = NoTensor

\* 0/1 adjacency matrices
InitGraphs ==
    /\ pc = "graphs"
    /\ \E E \in SubsetsUpTo(Entries, MaxEdges) :
          /\ graph1 = Matrix(1, E, [e \in E |-> 1])
          /\ graph2 = Matrix(2, E, [e \in E |-> 1])
    /\ precision = None /\ recall = None /\ f1 = None /\ vec = None
    /\ BernoulliIdle

\* adjacency matrices with entries 0..MaxWeight
InitWeightedGraphs ==
    /\ pc = "graphs"
    /\ \E E \in SubsetsUpTo(Entries, MaxWeightedEdges) :
          \E w \in [E -> 1..MaxWeight] :
              /\ graph1 = Matrix(1, E, w)
              /\ graph2 = Matrix(2, E, w)
    /\ precision = None /\ recall = None /\ f1 = None /\ vec = None
    /\ BernoulliIdle

InitScores ==
    /\ pc = "scores"
    /\ precision \in Scores
    /\ recall \in Scores
    /\ graph1 = None /\ graph2 = None /\ f1 = None /\ vec = None
    /\ BernoulliIdle

ToVector ==
    /\ pc = "graphs"
    /\ vec' = to_vector(graph1)
    /\ pc' = "to_vector"
    /\ UNCHANGED <<graph1, graph2, precision, recall, f1,
                   delta_logits, base_logits, samples, noise, out>>

AdjacencyPrecisionRecall ==
    /\ pc = "graphs"
    /\ LET pr == adjacency_precision_recall(graph1, graph2)
       IN  precision' = pr[1] /\ recall' = pr[2]
    /\ pc' = "adjacency_precision_recall"
    /\ UNCHANGED <<graph1, graph2, f1, vec,
                   delta_logits, base_logits, samples, noise, out>>

OrientationPrecisionRecall ==
    /\ pc = "graphs"
    /\ LET pr == orientation_precision_recall(graph1, graph2)
       IN  precision' = pr[1] /\ recall' = pr[2]
    /\ pc' = "orientation_precision_recall"
    /\ UNCHANGED <<graph1, graph2, f1, vec,
                   delta_logits, base_logits, samples, noise, out>>

AdjacencyF1 ==
    /\ pc = "graphs"
    /\ f1' = adjacency_f1(graph1, graph2)
    /\ pc' = "adjacency_f1"
    /\ UNCHANGED <<graph1, graph2, precision, recall, vec,
                   delta_logits, base_logits, samples, noise, out>>

OrientationF1 ==
    /\ pc = "graphs"
    /\ f1' = orientation_f1(graph1, graph2)
    /\ pc' = "orientation_f1"
    /\ UNCHANGED <<graph1, graph2, precision, recall, vec,
                   delta_logits, base_logits, samples, noise, out>>

F1Score ==
    /\ pc = "scores"
    /\ f1' = f1_score(precision, recall)
    /\ pc' = "f1_score"
    /\ UNCHANGED <<graph1, graph2, precision, recall, vec,
                   delta_logits, base_logits, samples, noise, out>>

Init == InitGraphs \/ InitScores

Next ==
    \/ ToVector
    \/ AdjacencyPrecisionRecall
    \/ OrientationPrecisionRecall
    \/ AdjacencyF1
    \/ OrientationF1
    \/ F1Score

Spec == Init /\ [][Next]_vars

NextWeighted == ToVector \/ AdjacencyPrecisionRecall

SpecWeighted == InitWeightedGraphs /\ [][NextWeighted]_vars

------------------------------------------------------------------------------
(* Properties of NoiseAccessibleBernoulli *)

\* C1: a sample sent through sample_to_noise and then noise_to_sample comes
\* back unchanged at every element, whatever the logits and the Gumbel draws.
RoundTripExact ==
    (pc = "done" /\ samples # NoTensor) => out = samples

\* the real number a + b is positive (a, b float32 values), decided on the
\* operands without rounding anything
ExactSumPositive(a, b) ==
    IF a[1] >= 0 /\ b[1] >= 0 THEN a[1] > 0 \/ b[1] > 0
    ELSE IF a[1] <= 0 /\ b[1] <= 0 THEN FALSE
    ELSE LET pos == IF a[1] > 0 THEN a ELSE b
             neg == IF a[1] > 0 THEN b ELSE a
         IN  pos[2] > neg[2] \/ (pos[2] = neg[2] /\ pos[1] > -neg[1])

\* C2: noise_to_sample is a hard threshold: for noise of delta_logits' shape,
\* each output element is 1.0 when delta_logits + noise > 0 there and 0.0
\* otherwise (also when the sum is 0), the output has the shape of the noise,
\* and base_logits plays no part.
NoiseToSampleIsThreshold ==
    pc = "done" =>
        /\ out.shape = noise.shape
        /\ DOMAIN out.data = DOMAIN noise.data
        /\ \A k \in DOMAIN out.data :
              /\ out.data[k] \in {Zero, One}
              /\ out.data[k] = One <=>
                    ExactSumPositive(delta_logits.data[k], noise.data[k])

\* a caller's noise tensor with one element whose sum with delta_logits is
\* exactly 0 (neither operand 0) and one whose sum is positive
NoiseToSampleWitness ==
    /\ pc = "done"
    /\ samples = NoTensor
    /\ \E k \in DOMAIN out.data :
          /\ out.data[k] = Zero
          /\ delta_logits.data[k] # Zero
          /\ noise.data[k] = FNeg(delta_logits.data[k])
    /\ \E k \in DOMAIN out.data : out.data[k] = One

\* the call of sample_to_noise has returned or failed
SampleToNoiseCalled == samples # NoTensor /\ pc # "sample_to_noise"

\* C3: sample_to_noise fails, returning no noise, exactly when samples.shape
\* differs from delta_logits.shape.
ShapeMismatchFails ==
    SampleToNoiseCalled =>
        /\ (samples.shape # delta_logits.shape) <=> (pc = "AssertionError")
        /\ pc = "AssertionError" => noise = NoTensor
        /\ pc # "AssertionError" => noise # NoTensor /\ noise.shape = samples.shape

\* the call failed on two shapes with the same number of elements
ShapeMismatchWitness ==
    /\ pc = "AssertionError"
    /\ Len(samples.shape) = 2
    /\ Len(delta_logits.shape) = 2
    /\ Prod(samples.shape) = Prod(delta_logits.shape)

------------------------------------------------------------------------------
(* Properties of the graph metrics *)

\* the unordered node pairs, each written <<i, j>> with i < j
PairSet == {p \in Nodes \X Nodes : p[1] < p[2]}

\* the pair has an edge in at least one direction
Adjacent(g, p) == g[p[1]][p[2]] # 0 \/ g[p[2]][p[1]] # 0

HasEdge(g) == \E p \in PairSet : Adjacent(g, p)

\* the fraction x is c / n, or 0 when n is 0
IsRatio(x, c, n) ==
    IF n = 0 THEN x = FracZero ELSE x # NaN /\ x[2] > 0 /\ x[1] * n = c * x[2]

FracOne == <<1, 1>>

\* the signed code of a node pair with entries u (i -> j, i < j) and l (j -> i)
\* of a 0/1 matrix
EdgeCode(u, l) ==
    IF u = 0 /\ l = 0 THEN 0
    ELSE IF u = 1 /\ l = 0 THEN 1
    ELSE IF u = 0 /\ l = 1 THEN -1
    ELSE 2

Code(g, p) == EdgeCode(g[p[1]][p[2]], g[p[2]][p[1]])

Transpose(g) == [i \in Nodes |-> [j \in Nodes |-> g[j][i]]]

ZeroDiagonal(g) == [i \in Nodes |-> [j \in Nodes |-> IF i = j THEN 0 ELSE g[i][j]]]

Binarise(g) == [i \in Nodes |-> [j \in Nodes |-> IF g[i][j] # 0 THEN 1 ELSE 0]]

\* C4: for identical graphs, adjacency precision and recall are both 1 when
\* the graph has an off-diagonal edge and both 0 when it has none.
IdenticalGraphsScore ==
    (pc = "adjacency_precision_recall" /\ graph1 = graph2) =>
        IF HasEdge(graph1)
        THEN precision = FracOne /\ recall = FracOne
        ELSE precision = FracZero /\ recall = FracZero

IdenticalGraphsWitness ==
    /\ pc = "adjacency_precision_recall"
    /\ graph1 = graph2
    /\ HasEdge(graph1)
    /\ precision = FracOne

\* C5: adjacency_precision_recall returns (precision, recall) with
\* recall = c / (pairs with an edge in graph1) and
\* precision = c / (pairs with an edge in graph2), c the number of pairs with
\* an edge in both; each is 0 when its own denominator is 0.
AdjacencyPrecisionRecallValues ==
    pc = "adjacency_precision_recall" =>
        LET c  == Cardinality({p \in PairSet : Adjacent(graph1, p) /\ Adjacent(graph2, p)})
            n1 == Cardinality({p \in PairSet : Adjacent(graph1, p)})
            n2 == Cardinality({p \in PairSet : Adjacent(graph2, p)})
        IN  IsRatio(recall, c, n1) /\ IsRatio(precision, c, n2)

\* graph1 has edges on two pairs, graph2 on one of them
AdjacencyValuesWitness ==
    /\ pc = "adjacency_precision_recall"
    /\ precision = FracOne
    /\ recall = <<1, 2>>

\* C6: orientation recall is the number of pairs whose code in graph1 is
\* nonzero and equal to the code in graph2, over the number of pairs with a
\* nonzero code in graph1; precision likewise with the graphs exchanged; each
\* is 0 when its denominator is 0.
OrientationPrecisionRecallValues ==
    pc = "orientation_precision_recall" =>
        LET m1 == Cardinality({p \in PairSet : Code(graph1, p) # 0 /\
                                               Code(graph1, p) = Code(graph2, p)})
            m2 == Cardinality({p \in PairSet : Code(graph2, p) # 0 /\
                                               Code(graph2, p) = Code(graph1, p)})
            n1 == Cardinality({p \in PairSet : Code(graph1, p) # 0})
            n2 == Cardinality({p \in PairSet : Code(graph2, p) # 0})
        IN  IsRatio(recall, m1, n1) /\ IsRatio(precision, m2, n2)

\* graph1 has a bidirectional pair that graph2 has in one direction only
OrientationValuesWitness ==
    /\ pc = "orientation_precision_recall"
    /\ \E p \in PairSet : Code(graph1, p) = 2 /\ Code(graph2, p) \in {1, -1}
    /\ precision = FracZero
    /\ recall = FracZero

NoBidirectionalPair(g) ==
    \A p \in PairSet : g[p[1]][p[2]] = 0 \/ g[p[2]][p[1]] = 0

\* C7: when graph2 is the transpose of graph1, graph1 has an edge and no pair
\* is connected in both directions, adjacency precision and recall are 1 and
\* orientation precision and recall are 0.
ReversedEdgesScore ==
    (graph1 # None /\ graph2 = Transpose(graph1) /\ HasEdge(graph1)
        /\ NoBidirectionalPair(graph1)) =>
        /\ pc = "adjacency_precision_recall" =>
              precision = FracOne /\ recall = FracOne
        /\ pc = "orientation_precision_recall" =>
              precision = FracZero /\ recall = FracZero

\* graph1 is {0 -> 1} and graph2 is {1 -> 0}
ReversedEdgesWitness ==
    /\ pc = "orientation_precision_recall"
    /\ graph1[0][1] = 1
    /\ graph2 = Transpose(graph1)
    /\ NoBidirectionalPair(graph1)
    /\ precision = FracZero
    /\ recall = FracZero

\* C8: f1_score returns 0 when |precision + recall| < 1e-8 and
\* 2 * precision * recall / (precision + recall) otherwise; adjacency_f1 and
\* orientation_f1 return 0 when the graphs have no matching edge.
F1ScoreGuarded ==
    /\ pc = "f1_score" =>
          LET sum == FracAdd(precision, recall)
              tiny == sum[1] = 0 \/
                      LET q == sum[2] \div Abs(sum[1])
                      IN  q > EpsReciprocal \/
                          (q = EpsReciprocal /\ sum[2] % Abs(sum[1]) # 0)
          IN  IF tiny THEN f1 = FracZero
              ELSE /\ f1 # NaN
                   /\ FracMul(f1, sum) = FracMul(FracMul(<<2, 1>>, precision), recall)
    /\ (pc = "adjacency_f1" /\
        \A p \in PairSet : ~(Adjacent(graph1, p) /\ Adjacent(graph2, p))) =>
          f1 = FracZero
    /\ (pc = "orientation_f1" /\
        \A p \in PairSet : ~(Code(graph1, p) # 0 /\ Code(graph1, p) = Code(graph2, p))) =>
          f1 = FracZero

\* f1_score(0, 0)
F1ScoreWitness ==
    /\ pc = "f1_score"
    /\ precision = FracZero
    /\ recall = FracZero
    /\ f1 = FracZero

\* C9: on a 0/1 matrix the encoding of a node pair is 0 with no edge, 1 or -1
\* with exactly one edge (opposite signs for the two directions) and 2 with
\* both; the vector has n(n-1)/2 entries and ignores the diagonal.
EdgeEncoding ==
    pc = "to_vector" =>
        /\ Len(vec) * 2 = NumNodes * (NumNodes - 1)
        /\ DOMAIN vec = 1..Len(vec)
        /\ \A k \in DOMAIN vec :
              LET u == graph1[NodePairs[k][1]][NodePairs[k][2]]
                  l == graph1[NodePairs[k][2]][NodePairs[k][1]]
              IN  /\ (u = 0 /\ l = 0) => vec[k] = 0
                  /\ (u = 1 /\ l = 0) => vec[k] = 1
                  /\ (u = 0 /\ l = 1) => vec[k] = -1
                  /\ (u = 1 /\ l = 1) => vec[k] = 2
        /\ {NodePairs[k] : k \in DOMAIN vec} = PairSet
        /\ vec = to_vector(ZeroDiagonal(graph1))

\* a graph with a bidirectional pair, a pair with the single edge j -> i
\* (i < j) and a pair without an edge
EdgeEncodingWitness ==
    /\ pc = "to_vector"
    /\ \E k \in DOMAIN vec : vec[k] = 2
    /\ \E k \in DOMAIN vec : vec[k] = -1
    /\ \E k \in DOMAIN vec : vec[k] = 0

\* C10: with non-negative integer entries the encoding of a pair is nonzero
\* exactly when one of its two directed entries is nonzero, so that
\* adjacency_precision_recall agrees with its value on the 0/1 matrices got
\* by replacing every nonzero entry with 1.
WeightsDoNotMatter ==
    /\ pc = "to_vector" =>
          \A k \in DOMAIN vec : (vec[k] # 0) <=> Adjacent(graph1, NodePairs[k])
    /\ pc = "adjacency_precision_recall" =>
          <<precision, recall>> =
              adjacency_precision_recall(Binarise(graph1), Binarise(graph2))

\* the pair has entry 2 from its lower to its higher node and 0 back
TwoZeroPair(g, p) == g[p[1]][p[2]] = 2 /\ g[p[2]][p[1]] = 0

\* C10 as amended: the same, except that a pair whose entry (i, j), i < j, is
\* 2 and whose entry (j, i) is 0 is encoded as 0; the agreement of
\* adjacency_precision_recall holds for graphs without such a pair.
WeightsDoNotMatterExceptTwoZero ==
    /\ pc = "to_vector" =>
          \A k \in DOMAIN vec :
              IF TwoZeroPair(graph1, NodePairs[k]) THEN vec[k] = 0
              ELSE (vec[k] # 0) <=> Adjacent(graph1, NodePairs[k])
    /\ (pc = "adjacency_precision_recall" /\
        \A p \in PairSet : ~TwoZeroPair(graph1, p) /\ ~TwoZeroPair(graph2, p)) =>
          <<precision, recall>> =
              adjacency_precision_recall(Binarise(graph1), Binarise(graph2))

\* graphs with an entry of weight 2 and a common edge
WeightedGraphsWitness ==
    /\ pc = "adjacency_precision_recall"
    /\ \E p \in PairSet : graph1[p[2]][p[1]] = 2 /\ Adjacent(graph2, p)
    /\ precision = FracOne
    /\ recall = FracOne

====
